---- MODULE Spec2Model ----
(***************************************************************************)
(* Authentication backend of the IoT device-control application.           *)
(*                                                                         *)
(*  - functions/api/auth.js : action-based endpoint over the D1 table      *)
(*    `users` (signup, login, forgot, delete) and its JWT helpers;         *)
(*  - src/auth.js (in src/index.js) : KV variant, handleSignUp/handleLogin.*)
(*                                                                         *)
(* Strings are sequences of characters.  A character is one of a few       *)
(* atoms, one per class the code distinguishes: ASCII lower case ("a",     *)
(* "b"), ASCII upper case ("A"), white space (" "), and a letter outside   *)
(* Latin-1 ("lam" for U+03BB, "LAM" for U+039B).                           *)
(***************************************************************************)
EXTENDS Integers, Sequences, FiniteSets, Bags, TLC

\* ---------------------------------------------------------------- bounds
MaxInFlight == 2     \* requests that can be between two store calls at once
MaxDraws    == 3     \* calls of makeRecoveryCode (one per INSERT or UPDATE attempted)
MaxTicks    == 1     \* values of Date.now() after the first

\* ------------------------------------------------------------ constants
CodeLen       == 12          \* makeRecoveryCode(12)
TokenLifetime == 86400       \* 24 * 60 * 60
SigLen        == 43          \* base64url of the 32 bytes of HMAC-SHA256, unpadded

Null == [null |-> TRUE]

\* ------------------------------------------------------------- strings
IsSpace(c) == c = " "

LowerChar(c) == IF c = "A" THEN "a" ELSE IF c = "LAM" THEN "lam" ELSE c

toLowerCase(s) == [i \in 1..Len(s) |-> LowerChar(s[i])]

RECURSIVE TrimStart(_)
TrimStart(s) == IF s # <<>> /\ IsSpace(Head(s)) THEN TrimStart(Tail(s)) ELSE s

RECURSIVE TrimEnd(_)
TrimEnd(s) ==
    IF s # <<>> /\ IsSpace(s[Len(s)]) THEN TrimEnd(SubSeq(s, 1, Len(s) - 1)) ELSE s

\* no white space removed
trimOff(s) == s

trim(s) == TrimEnd(TrimStart(s))

\* the normalisation with the lower-casing left out
NormalizeEmailTrimOnly(s) == trim(s)

\* (body.email || "").trim().toLowerCase()
NormalizeEmail(s) == toLowerCase(trim(s))

\* a character btoa() accepts: code point <= 0xFF
IsLatin1(c) == c \notin {"lam", "LAM"}

\* ------------------------------------------------------------- digests
\* SHA-256 rendered as lower-case hex.  The digest of s is the string "#" s:
\* a string again (so a request can carry it as a password), different from
\* s, and different for different s.
\* the string itself in place of its digest
hashPasswordPlain(str) == str

hashPassword(str) == <<"#">> \o str

\* ------------------------------------------------------- recovery codes
chars == << "A","B","C","D","E","F","G","H","I","J","K","L","M",
            "N","O","P","Q","R","S","T","U","V","W","X","Y","Z",
            "a","b","c","d","e","f","g","h","i","j","k","l","m",
            "n","o","p","q","r","s","t","u","v","w","x","y","z",
            "0","1","2","3","4","5","6","7","8","9" >>

\* the bytes taken as indices with no reduction, the large ones cut to the last
makeRecoveryCodeNoWrap(bytes) ==
    [i \in 1..Len(bytes) |->
        chars[(IF bytes[i] < Len(chars) THEN bytes[i] ELSE Len(chars) - 1) + 1]]

makeRecoveryCode(bytes) == [i \in 1..Len(bytes) |-> chars[(bytes[i] % Len(chars)) + 1]]

\* what crypto.getRandomValues may put into the 12 bytes
RandomDraw(k) == [i \in 1..CodeLen |-> (k * 41 + i * 13) % 256]

\* ----------------------------------------------------------- JWT codec
\* A token is a string; it is kept as the sequence of its symbols.  A symbol
\* is the separator ".", or the unpadded base64url text of a binary string
\* (one symbol for the whole text), or one character of the base64url text of
\* a 32-byte MAC.
Dot == [t |-> "."]

\* JSON.stringify(obj): the JSON text of obj
JSONstringify(obj) == [json |-> obj]

\* the strings that occur in the JSON text of a claims object
StringsOf(obj) == IF "email" \in DOMAIN obj THEN {obj.email} ELSE {}

\* btoa() throws InvalidCharacterError on a character above 0xFF
BtoaThrows(text) == \E s \in StringsOf(text.json) : \E i \in 1..Len(s) : ~IsLatin1(s[i])

\* btoa(text).replace(+,-).replace(/,_).replace(=+$,""), for a text btoa accepts
base64url(text) == << [t |-> "b64", v |-> text] >>

\* a MAC that does not depend on the key
hmacSignKeyless(secret, data) == [key |-> <<>>, msg |-> data]

\* crypto.subtle.sign("HMAC", key, data): the 32 bytes of the MAC
hmacSign(secret, data) == [key |-> secret, msg |-> data]

\* base64url of the 32 MAC bytes: 43 characters; the last one carries 4 bits
\* of the MAC and 2 unused bits (pad), which btoa sets to 0
sigBase64url(mac) == [i \in 1..SigLen |-> [t |-> "sig", mac |-> mac, pos |-> i, pad |-> 0]]

Throw == [throw |-> TRUE]

\* generateJWT(payload) under SECRET = secret: the token, or Throw
generateJWT(payload, secret) ==
    LET header == [alg |-> "HS256", typ |-> "JWT"]
    IN  IF BtoaThrows(JSONstringify(header)) \/ BtoaThrows(JSONstringify(payload))
        THEN Throw
        ELSE LET headerEnc     == base64url(JSONstringify(header))
                 payloadEnc    == base64url(JSONstringify(payload))
                 unsignedToken == headerEnc \o <<Dot>> \o payloadEnc
                 signature     == hmacSign(secret, unsignedToken)
             IN  unsignedToken \o <<Dot>> \o sigBase64url(signature)

\* token.split("."): the pieces between the separators, empty pieces included
split(s) ==
    LET dots   == { i \in 1..Len(s) : s[i] = Dot }
        n      == Cardinality(dots)
        dot(k) == CHOOSE i \in dots : Cardinality({ j \in dots : j < i }) = k - 1
    IN  [k \in 1..(n + 1) |->
            SubSeq(s, IF k = 1 THEN 1 ELSE dot(k - 1) + 1,
                      IF k = n + 1 THEN Len(s) ELSE dot(k) - 1)]

\* atob(part.replace(-,+).replace(_,/)): the binary string the text encodes.
\* Decoding is forgiving: the unused bits of the last character are dropped
\* without being looked at.  A character outside the alphabet ("bad") makes
\* atob throw.
atob(part) ==
    IF \E i \in 1..Len(part) : part[i].t = "bad" THEN Throw
    ELSE IF Len(part) = 1 /\ part[1].t = "b64" THEN part[1].v
    ELSE IF /\ Len(part) = SigLen
            /\ \A i \in 1..SigLen : part[i].t = "sig" /\ part[i].pos = i
            /\ \A i \in 1..SigLen : part[i].mac = part[1].mac
         THEN part[1].mac
         ELSE [garbage |-> part]

\* the expiry comparison left out
ExpiredNever(nowMs, payload) == FALSE

\* Date.now() / 1000 > payload.exp; a comparison with undefined is false
Expired(nowMs, payload) == "exp" \in DOMAIN payload /\ nowMs > payload.exp * 1000

\* verifyJWT(token) under SECRET = secret at time nowMs: the payload, or Null
verifyJWT(token, secret, nowMs) ==
    LET parts      == split(token)
        headerB64  == IF Len(parts) >= 1 THEN parts[1] ELSE <<>>
        payloadB64 == IF Len(parts) >= 2 THEN parts[2] ELSE <<>>
        sigB64     == IF Len(parts) >= 3 THEN parts[3] ELSE <<>>
    IN  IF headerB64 = <<>> \/ payloadB64 = <<>> \/ sigB64 = <<>> THEN Null
        ELSE LET unsignedToken == headerB64 \o <<Dot>> \o payloadB64
                 sigBin        == atob(sigB64)
                 valid         == sigBin = hmacSign(secret, unsignedToken)
             IN  IF sigBin = Throw THEN Null
                 ELSE IF ~valid THEN Null
                 ELSE LET text == atob(payloadB64)
                      IN  IF text = Throw THEN Null
                          ELSE IF "json" \notin DOMAIN text THEN Null
                          ELSE LET payload == text.json
                               IN  IF Expired(nowMs, payload)
                                   THEN Null
                                   ELSE payload

\* ------------------------------------------------ action-based endpoint
VARIABLES
    users,       \* rows of the D1 table `users`
    nextId,      \* the id the next INSERT gets
    issued,      \* recovery codes makeRecoveryCode has returned so far
    inflight,    \* bag of the requests waiting for a store call: [pc, body, loc]
    out,         \* the Response being returned with its request, or Null
    gRow,        \* history: row id -> the password last written to the row, whether a
                 \* reset wrote it, and the recovery code the signup of the row sent
    gDisclosed,  \* history: <<email, code>> for every recovery code sent in a response
    gUsed        \* history: <<email, code>> for every code a completed reset was made with

varsAuth == << users, nextId, issued, inflight, out, gRow, gDisclosed, gUsed >>

\* KV variant (src/auth.js)
VARIABLES
    kv,          \* env.USERS: key -> JSON text of the user
    kvUuids,     \* number of uuidv4() calls so far
    kvInflight,  \* bag of the signups waiting for USERS.put: [pc, body]
    kvOut,       \* the Response being returned with its request, or Null
    gKvCreated   \* history: the emails a signup answered 201 for

varsKV == << kv, kvUuids, kvInflight, kvOut, gKvCreated >>

\* the JWT helpers of auth.js on their own
VARIABLES
    jPc,         \* "start", "signed", "threw", "verified" or "again"
    jClaims,     \* the payload given to generateJWT
    jSecret,     \* env.my_secret
    jClockMs,    \* Date.now()
    jToken,      \* the token generateJWT returned, as it reaches verifyJWT
    jTamper,     \* what was done to the token on its way (history)
    jResult      \* what verifyJWT returned

varsJ == << jPc, jClaims, jSecret, jClockMs, jToken, jTamper, jResult >>

\* the issue of a token on its own
VARIABLES
    tVariant,    \* "login" (auth.js) or "kv" (index.js)
    tPayload,    \* the user row login signs for, or the payload given to createJWT
    tClockMs,    \* Date.now()
    tToken       \* the token issued, Throw, or Null before the call

varsT == << tVariant, tPayload, tClockMs, tToken >>

\* makeRecoveryCode on its own
VARIABLES
    cBytes,      \* what crypto.getRandomValues puts into the array
    cCode        \* the string returned, or Null before the call

varsC == << cBytes, cCode >>

\* a handler and the store calls it awaits
VARIABLES
    sHandler,    \* the handler running, or Null
    sCall,       \* the index of the store call it awaits (0: none)
    sResp        \* the Response it returned, Escaped, or Null while it runs

varsS == << sHandler, sCall, sResp >>

\* the switch table and the handlers of esp.js that work on it
VARIABLES
    switches,    \* the rows of esp_switches
    swNextId,    \* the id the next INSERT gets (AUTOINCREMENT)
    swInflight,  \* the handlers waiting for a store call: a bag of [pc, body, loc]
    swOut        \* the Response being returned with its request, or Null

varsSw == << switches, swNextId, swInflight, swOut >>

\* the connection table and the handlers of esp.js that work on it
VARIABLES
    conns,       \* the rows of esp_connections
    cnNextId,    \* the id the next INSERT gets (AUTOINCREMENT)
    cnInflight,  \* the handlers waiting for a store call: a bag of [pc, body, loc]
    cnOut        \* the Response being returned with its request, or Null

varsCn == << conns, cnNextId, cnInflight, cnOut >>

varsUnits == << varsT, varsC, varsS, varsSw, varsCn >>

vars == << varsAuth, varsKV, varsJ, varsUnits >>

SECRET == <<"k">>      \* env.my_secret

\* what Date.now() may return
TickMs == 1500
ClockInputs == { k * TickMs : k \in 0..MaxTicks }

NameInputs      == { <<"a">>, <<" ">> }
EmailInputs     == { <<" ", "A">>, <<"lam">>, <<>> }
LookupEmails    == EmailInputs \cup { <<"a">> }   \* another spelling, for the requests of one store call
PlainPasswords  == { <<"a">>, <<"b">> }
SignupPasswords == { <<"a">>, <<>> }
NewPasswords    == { <<"b">>, <<>> }
LoginPasswords  == PlainPasswords \cup { hashPassword(p) : p \in SignupPasswords \ { <<>> } } \cup { <<>> }
AllCodes        == { makeRecoveryCode(RandomDraw(k)) : k \in 1..MaxDraws }
CodeInputs      == AllCodes \cup { <<>> }

Response(status, body) == [status |-> status, body |-> body]

\* the headers every response of functions/api/auth.js is made with
CORS_HEADERS ==
    [ContentType |-> "application/json",
     AccessControlAllowOrigin  |-> "*",
     AccessControlAllowHeaders |-> "Content-Type, Authorization",
     AccessControlAllowMethods |-> "GET, POST, OPTIONS"]

\* a response made without the access-control headers
AuthResponseBare(status, body) ==
    [status |-> status, body |-> body, headers |-> [ContentType |-> "application/json"]]

\* new Response(JSON.stringify(body), { status, headers: CORS_HEADERS })
AuthResponse(status, body) == [status |-> status, body |-> body, headers |-> CORS_HEADERS]

\* the whole row given to the client
SafeUserWhole(user) == user

\* safeUser of login: id, name, email, phone, gender
SafeUser(user) ==
    [id |-> user.id, name |-> user.name, email |-> user.email, phone |-> Null, gender |-> Null]

\* the claims login signs at time nowMs
LoginClaims(user, nowMs) ==
    [id |-> user.id, email |-> user.email, exp |-> (nowMs \div 1000) + TokenLifetime]

\* a SELECT that finds no row
SelectByEmailBlind(email) == Null

\* NDB.prepare("SELECT ... FROM users WHERE email = ?").bind(email).first()
SelectByEmail(email) ==
    LET rows == { u \in users : u.email = email }
    IN  IF rows = {} THEN Null
        ELSE CHOOSE u \in rows : \A v \in rows : u.id <= v.id

\* the table keeps `email` unique: an INSERT of an email that has a row fails
InsertFails(email) == \E u \in users : u.email = email

\* the row an INSERT creates; ids are never used twice
NewRow(name, email, password, recovery) ==
    [id |-> nextId, name |-> name, email |-> email,
     password |-> password, recovery_code |-> recovery]

\* the UPDATE with the recovery_code column left out
UpdateUserPasswordOnly(id, newHashed, newCodeHashed) ==
    { IF u.id = id THEN [u EXCEPT !.password = newHashed] ELSE u : u \in users }

\* UPDATE users SET password = ?, recovery_code = ? WHERE id = ?
UpdateUser(id, newHashed, newCodeHashed) ==
    { IF u.id = id THEN [u EXCEPT !.password = newHashed, !.recovery_code = newCodeHashed]
                   ELSE u : u \in users }

\* makeRecoveryCode(12) returns a code it has not returned before: the 12
\* bytes come from crypto.getRandomValues, and a repetition among the handful
\* of codes of one run is not a case of the design.  No handler looks into a
\* code, so which fresh code a call returns makes no difference: the k-th call
\* returns the code of the k-th draw.
FreshCodes ==
    IF Cardinality(issued) < MaxDraws
    THEN { makeRecoveryCode(RandomDraw(Cardinality(issued) + 1)) }
    ELSE {}

AuthInit ==
    /\ users = {}
    /\ nextId = 1
    /\ issued = {}
    /\ inflight = EmptyBag
    /\ out = Null
    /\ gRow = << >>
    /\ gDisclosed = {}
    /\ gUsed = {}

\* a request arrives while nothing is being returned
Ready == out = Null /\ UNCHANGED << varsKV, varsJ, varsUnits >>

Return(body, r, g, calls) == out' = [req |-> body, resp |-> r, g |-> g, calls |-> calls]

Suspend(pcNext, body, l) ==
    /\ BagCardinality(inflight) < MaxInFlight
    /\ inflight' = inflight (+) SetToBag({[pc |-> pcNext, body |-> body, loc |-> l]})
    /\ out' = Null

Resume(r) == inflight' = inflight (-) SetToBag({r})

\* action=signup, up to the answer of the existence SELECT
SignupBegin(body) ==
    LET name     == trim(body.name)
        email    == NormalizeEmail(body.email)
        password == body.password
        g        == [registered |-> \E u \in users : u.email = email]
    IN  /\ Ready
        /\ body.action = "signup"
        /\ UNCHANGED << users, nextId, issued, gRow, gDisclosed, gUsed >>
        /\ IF name = <<>> \/ email = <<>> \/ password = <<>>
           THEN /\ Return(body, AuthResponse(400, [error |-> "Missing required fields: name, email, password"]), g, 0)
                /\ UNCHANGED inflight
           ELSE IF SelectByEmail(email) # Null
           THEN /\ Return(body, AuthResponse(409, [error |-> "User already exists"]), g, 1)
                /\ UNCHANGED inflight
           ELSE Suspend("ins", body, g)

\* the status the catch block of signup answers with
SignupCatchStatus == 500

\* action=signup, from the answer of the SELECT to the response: digests,
\* recovery code, INSERT
SignupInsert(r) ==
    /\ Ready
    /\ r.pc = "ins"
    /\ Resume(r)
    /\ \E recoveryCode \in FreshCodes :
         LET name           == trim(r.body.name)
             email          == NormalizeEmail(r.body.email)
             hashedPassword == hashPassword(r.body.password)
             recoveryHashed == hashPassword(recoveryCode)
         IN  /\ issued' = issued \cup {recoveryCode}
             /\ IF InsertFails(email)
                THEN /\ Return(r.body, AuthResponse(SignupCatchStatus, [error |-> "Internal server error (signup)"]),
                               [registered |-> r.loc.registered, had |-> TRUE], 2)
                     /\ UNCHANGED << users, nextId, gRow, gDisclosed >>
                ELSE /\ users' = users \cup {NewRow(name, email, hashedPassword, recoveryHashed)}
                     /\ nextId' = nextId + 1
                     /\ gRow' = gRow @@ (nextId :> [password |-> r.body.password, reset |-> FALSE,
                                                 code |-> recoveryCode, old |-> <<>>])
                     /\ gDisclosed' = gDisclosed \cup {<<email, recoveryCode>>}
                     /\ Return(r.body, AuthResponse(201, [message |-> "Signup successful", recovery_code |-> recoveryCode]),
                               [registered |-> r.loc.registered, had |-> FALSE], 2)
    /\ UNCHANGED gUsed

\* action=login at time nowMs: the whole handler (one store call)
Login(body, nowMs) ==
    LET email    == NormalizeEmail(body.email)
        password == body.password
        user     == SelectByEmail(email)
        hashed   == hashPassword(password)
        stored   == user.password
        valid    == hashed = stored \/ password = stored
        token    == generateJWT(LoginClaims(user, nowMs), SECRET)
        safeUser == SafeUser(user)
        g        == [at |-> IF user # Null /\ valid /\ token # Throw THEN nowMs ELSE 0,
                     exists |-> user # Null,
                     cred   |-> user # Null /\ gRow[user.id].password = password,
                     signup |-> user # Null /\ ~gRow[user.id].reset,
                     old    |-> /\ user # Null /\ gRow[user.id].reset
                                /\ gRow[user.id].old = password
                                /\ gRow[user.id].password # password,
                     stored |-> IF user = Null THEN <<>> ELSE stored]
    IN  /\ Ready
        /\ body.action = "login"
        /\ UNCHANGED << users, nextId, issued, inflight, gRow, gDisclosed, gUsed >>
        /\ IF email = <<>> \/ password = <<>>
           THEN Return(body, AuthResponse(400, [error |-> "Missing email or password"]), g, 0)
           ELSE IF user = Null
           THEN Return(body, AuthResponse(401, [error |-> "Invalid credentials"]), g, 1)
           ELSE IF ~valid
           THEN Return(body, AuthResponse(401, [error |-> "Invalid credentials"]), g, 1)
           ELSE IF token = Throw
           THEN Return(body, AuthResponse(500, [error |-> "Internal server error (login)"]), g, 1)
           ELSE Return(body, AuthResponse(200, [message |-> "Login successful", token |-> token,
                                            user |-> safeUser]), g, 1)

\* the comparison left out
RecoveryMismatchOff(providedHash, stored) == FALSE

\* providedHash !== user.recovery_code
RecoveryMismatch(providedHash, stored) == providedHash # stored

\* action=forgot, up to the comparison of the recovery digest
ForgotBegin(body) ==
    LET email == NormalizeEmail(body.email)
        user  == SelectByEmail(email)
        providedHash == hashPassword(body.recovery_code)
        g     == [exists |-> user # Null,
                  match  |-> user # Null /\ providedHash = user.recovery_code,
                  stale  |-> <<email, body.recovery_code>> \in gUsed,
                  first  |-> /\ user # Null
                             /\ gRow[user.id].code = body.recovery_code
                             /\ <<email, body.recovery_code>> \notin gUsed]
    IN  /\ Ready
        /\ body.action = "forgot"
        /\ UNCHANGED << users, nextId, issued, gRow, gDisclosed, gUsed >>
        /\ IF email = <<>>
           THEN /\ Return(body, AuthResponse(400, [error |-> "Missing email"]), g, 0)
                /\ UNCHANGED inflight
           ELSE IF user = Null
           THEN /\ Return(body, AuthResponse(200, [message |-> "If an account exists, instructions were sent."]), g, 1)
                /\ UNCHANGED inflight
           ELSE IF body.recovery_code # <<>> /\ body.new_password # <<>>
           THEN IF RecoveryMismatch(providedHash, user.recovery_code)
                THEN /\ Return(body, AuthResponse(401, [error |-> "Invalid recovery code"]), g, 1)
                     /\ UNCHANGED inflight
                ELSE Suspend("upd", body, [id |-> user.id, g |-> g])
           ELSE /\ Return(body, AuthResponse(200, [message |-> "If an account exists, follow the reset instructions you received."]), g, 1)
                /\ UNCHANGED inflight

\* action=forgot, from the comparison to the response: new digests, UPDATE
ForgotUpdate(r) ==
    /\ Ready
    /\ r.pc = "upd"
    /\ Resume(r)
    /\ \E newCode \in FreshCodes :
         LET email         == NormalizeEmail(r.body.email)
             newHashed     == hashPassword(r.body.new_password)
             newCodeHashed == hashPassword(newCode)
         IN  /\ issued' = issued \cup {newCode}
             /\ users' = UpdateUser(r.loc.id, newHashed, newCodeHashed)
             /\ gRow' = IF \E u \in users : u.id = r.loc.id
                        THEN [gRow EXCEPT ![r.loc.id].old = gRow[r.loc.id].password,
                                          ![r.loc.id].password = r.body.new_password,
                                          ![r.loc.id].reset = TRUE]
                        ELSE gRow
             /\ gDisclosed' = gDisclosed \cup {<<email, newCode>>}
             /\ gUsed' = gUsed \cup {<<email, r.body.recovery_code>>}
             /\ Return(r.body, AuthResponse(200, [message |-> "Password reset successful", recovery_code |-> newCode]),
                       [exists |-> TRUE, match |-> r.loc.g.match,
                        stale |-> r.loc.g.stale, first |-> r.loc.g.first,
                        id |-> r.loc.id, again |-> <<email, r.body.recovery_code>> \in gUsed], 2)
    /\ UNCHANGED nextId

\* a DELETE that removes no row
DeleteRowsNone(email) == users

\* a DELETE that empties the table
DeleteRowsAll(email) == {}

\* the rows DELETE FROM users WHERE email = ? leaves
DeleteRows(email) == { u \in users : u.email # email }

\* action=delete: the whole handler (one store call)
Delete(body) ==
    LET email   == NormalizeEmail(body.email)
        changes == Cardinality({ u \in users : u.email = email })
    IN  /\ Ready
        /\ body.action = "delete"
        /\ UNCHANGED << nextId, issued, inflight, gDisclosed, gUsed >>
        /\ IF email = <<>>
           THEN /\ Return(body, AuthResponse(400, [error |-> "Missing email"]), Null, 0)
                /\ UNCHANGED << users, gRow >>
           ELSE /\ users' = DeleteRows(email)
                /\ gRow' = [id \in { u.id : u \in users' } |-> gRow[id]]
                /\ IF changes > 0
                   THEN Return(body, AuthResponse(200, [success |-> TRUE, message |-> "Account deleted"]), Null, 1)
                   ELSE Return(body, AuthResponse(404, [success |-> FALSE, error |-> "User not found"]), Null, 1)

\* the requests no action handler sees: the preflight, and a request without
\* action or with an action that is none of signup, login, forgot, delete
Other(req) ==
    /\ Ready
    /\ UNCHANGED << users, nextId, issued, inflight, gRow, gDisclosed, gUsed >>
    /\ IF req.method = "OPTIONS"
       THEN Return(req, AuthResponse(204, Null), Null, 0)
       ELSE IF req.action = ""
       THEN Return(req, AuthResponse(400, [error |-> "Missing action"]), Null, 0)
       ELSE /\ req.action \notin {"signup", "login", "forgot", "delete"}
            /\ Return(req, AuthResponse(400, [error |-> "Unknown action"]), Null, 0)

\* the response has left; the next request is looked at
Deliver ==
    /\ out # Null
    /\ out' = Null
    /\ UNCHANGED << varsKV, varsJ, varsUnits >>
    /\ UNCHANGED << users, nextId, issued, inflight, gRow, gDisclosed, gUsed >>

SignupBodies == [action : {"signup"}, name : NameInputs, email : EmailInputs, password : SignupPasswords]
LoginBodies  == [action : {"login"}, email : LookupEmails, password : LoginPasswords]
ForgotBodies == [action : {"forgot"}, email : EmailInputs, recovery_code : CodeInputs,
                 new_password : NewPasswords]
                  \cup [action : {"forgot"}, email : LookupEmails \ EmailInputs,
                        recovery_code : CodeInputs, new_password : {<<>>}]
DeleteBodies == [action : {"delete"}, email : LookupEmails]
OtherRequests == [method : {"OPTIONS", "POST"}, action : {"", "x"}]

AuthNext ==
    \/ \E body \in SignupBodies : SignupBegin(body)
    \/ \E r \in BagToSet(inflight) : SignupInsert(r)
    \/ \E body \in LoginBodies, nowMs \in ClockInputs : Login(body, nowMs)
    \/ \E body \in ForgotBodies : ForgotBegin(body)
    \/ \E r \in BagToSet(inflight) : ForgotUpdate(r)
    \/ \E body \in DeleteBodies : Delete(body)
    \/ \E req \in OtherRequests : Other(req)
    \/ Deliver

\* ------------------------------------------------------------ KV variant
MinPasswordLen == 8          \* password.length < 8
KvTokenLifetime == 604800    \* 7 * 24 * 60 * 60
MaxUuids == 4                \* uuidv4() calls (two per signup)

JWT_SECRET == <<"k">>        \* env.JWT_SECRET

Repeat(c, n) == [i \in 1..n |-> c]

KvEmailInputs    == { <<"a">>, <<"A">>, <<"lam">>, <<>> }
KvPasswordInputs == { Repeat("a", 8), Repeat("b", 8), Repeat("a", 7), <<>> }
KvBodies         == [email : KvEmailInputs, password : KvPasswordInputs]

\* uuidv4(): the k-th call returns a value no other call returns
uuidv4(k) == <<"u">> \o Repeat("x", k)

\* hashPassword(password, salt) of src/auth.js: the digest of password + salt
kvHashPassword(password, salt) == hashPassword(password \o salt)

\* env.USERS.get(key)
KvGet(key) == IF key \in DOMAIN kv THEN kv[key] ELSE Null

\* env.USERS.put(key, value): creates or replaces the value of key
KvPut(key, value) == [k \in DOMAIN kv \cup {key} |-> IF k = key THEN value ELSE kv[k]]

\* claims in which the fields of the payload win over exp and iat
CreateClaimsKeep(payload, nowMs) ==
    payload @@ [exp |-> (nowMs \div 1000) + KvTokenLifetime, iat |-> nowMs \div 1000]

\* { ...payload, exp: expiration, iat: Math.floor(Date.now() / 1000) }
CreateClaims(payload, nowMs) ==
    LET expiration == (nowMs \div 1000) + KvTokenLifetime
    IN  [exp |-> expiration, iat |-> nowMs \div 1000] @@ payload

\* createJWT(payload, secret) at time nowMs: the token, or Throw
createJWT(payload, secret, nowMs) ==
    LET header     == [alg |-> "HS256", typ |-> "JWT"]
        claims     == CreateClaims(payload, nowMs)
    IN  IF BtoaThrows(JSONstringify(header)) \/ BtoaThrows(JSONstringify(claims))
        THEN Throw
        ELSE LET encodedHeader == base64url(JSONstringify(header))
                 encodedClaims == base64url(JSONstringify(claims))
                 dataToSign    == encodedHeader \o <<Dot>> \o encodedClaims
                 signature     == hmacSign(secret, dataToSign)
             IN  dataToSign \o <<Dot>> \o sigBase64url(signature)

KvInit ==
    /\ kv = << >>
    /\ kvUuids = 0
    /\ kvInflight = EmptyBag
    /\ kvOut = Null
    /\ gKvCreated = {}

KvReady == kvOut = Null /\ UNCHANGED << varsAuth, varsJ, varsUnits >>

KvReturn(body, r, g) == kvOut' = [req |-> body, resp |-> r, g |-> g]

\* handleSignUp, up to the answer of USERS.get
handleSignUpBegin(body) ==
    /\ KvReady
    /\ UNCHANGED << kv, kvUuids, gKvCreated >>
    /\ IF body.email = <<>> \/ body.password = <<>> \/ Len(body.password) < MinPasswordLen
       THEN /\ KvReturn(body, Response(400, [success |-> FALSE, message |-> "Invalid email or password (min 8 characters)."]), Null)
            /\ UNCHANGED kvInflight
       ELSE IF KvGet(body.email) # Null
       THEN /\ KvReturn(body, Response(409, [success |-> FALSE, message |-> "User already exists."]), Null)
            /\ UNCHANGED kvInflight
       ELSE /\ BagCardinality(kvInflight) < MaxInFlight
            /\ kvInflight' = kvInflight (+) SetToBag({[pc |-> "put", body |-> body]})
            /\ kvOut' = Null

\* handleSignUp at time nowMs, from the answer of USERS.get to the response:
\* salt, digest, put
handleSignUpPut(r, nowMs) ==
    /\ KvReady
    /\ r.pc = "put"
    /\ kvUuids + 2 <= MaxUuids
    /\ kvInflight' = kvInflight (-) SetToBag({r})
    /\ LET salt           == uuidv4(kvUuids + 1)
           hashedPassword == kvHashPassword(r.body.password, salt)
           userId         == uuidv4(kvUuids + 2)
           user           == [userId |-> userId, email |-> r.body.email, hash |-> hashedPassword,
                              salt |-> salt, createdAt |-> nowMs]
       IN  /\ kv' = KvPut(r.body.email, JSONstringify(user))
           /\ kvUuids' = kvUuids + 2
           /\ gKvCreated' = gKvCreated \cup {r.body.email}
           /\ KvReturn(r.body, Response(201, [success |-> TRUE, message |-> "Registration successful."]),
                       [again |-> r.body.email \in gKvCreated])

\* handleLogin at time nowMs: the whole handler (one store call)
handleLogin(body, nowMs) ==
    LET userJson      == KvGet(body.email)
        user          == userJson.json
        candidateHash == kvHashPassword(body.password, user.salt)
        token         == createJWT([userId |-> user.userId, email |-> user.email], JWT_SECRET, nowMs)
    IN  /\ KvReady
        /\ UNCHANGED << kv, kvUuids, kvInflight, gKvCreated >>
        /\ IF body.email = <<>> \/ body.password = <<>>
           THEN KvReturn(body, Response(400, [message |-> "Email and password are required."]), Null)
           ELSE IF userJson = Null
           THEN KvReturn(body, Response(401, [message |-> "Invalid credentials."]), Null)
           ELSE IF candidateHash # user.hash
           THEN KvReturn(body, Response(401, [message |-> "Invalid credentials."]), Null)
           ELSE IF token = Throw
           THEN KvReturn(body, Response(500, [message |-> "Internal Server Error during login."]), Null)
           ELSE KvReturn(body, Response(200, [token |-> token, message |-> "Login successful."]), Null)

KvDeliver ==
    /\ kvOut # Null
    /\ kvOut' = Null
    /\ UNCHANGED << kv, kvUuids, kvInflight, gKvCreated >>
    /\ UNCHANGED << varsAuth, varsJ, varsUnits >>

KvNext ==
    \/ \E body \in KvBodies : handleSignUpBegin(body)
    \/ \E r \in BagToSet(kvInflight), nowMs \in ClockInputs : handleSignUpPut(r, nowMs)
    \/ \E body \in KvBodies, nowMs \in ClockInputs : handleLogin(body, nowMs)
    \/ KvDeliver

\* ------------------------------------------------- the JWT helpers alone
JSecrets == { <<"k">>, <<"k", "k">> }
JEmails  == { <<"a">>, <<"a", "e9">>, <<"lam">> }
JExps    == { 0, 1, 2, TokenLifetime }
JClaimsInputs == [id : 1..2, email : JEmails, exp : JExps] \cup [id : 1..2, email : JEmails]

NoTamper == [kind |-> "none"]

JIdle ==
    /\ jPc = "start"
    /\ jClaims = Null
    /\ jSecret = SECRET
    /\ jClockMs = 0
    /\ jToken = Null
    /\ jTamper = NoTamper
    /\ jResult = Null

JInit ==
    /\ jPc = "start"
    /\ jClaims \in JClaimsInputs
    /\ jSecret \in JSecrets
    /\ jClockMs = 0
    /\ jToken = Null
    /\ jTamper = NoTamper
    /\ jResult = Null

\* token = await generateJWT(claims)
JGenerate ==
    /\ jPc = "start"
    /\ jToken' = generateJWT(jClaims, jSecret)
    /\ jPc' = IF jToken' = Throw THEN "threw" ELSE "signed"
    /\ UNCHANGED << jClaims, jSecret, jClockMs, jTamper, jResult >>
    /\ UNCHANGED << varsAuth, varsKV, varsUnits >>

\* the pieces of a token and the token of three pieces
Segments(token) == split(token)
Join3(h, p, sg) == h \o <<Dot>> \o p \o <<Dot>> \o sg

\* the characters that can stand at position i of a signature segment in
\* place of c: base64url characters with other data bits, the base64url
\* characters with the data bits of c and other unused bits (last position
\* only: 43 * 6 = 258 bits for the 256 of the MAC), and characters outside
\* the alphabet
OtherChars(c, i) ==
    { [t |-> "sig", mac |-> [other |-> c.mac], pos |-> i, pad |-> 0], [t |-> "bad"] }
      \cup (IF i = SigLen THEN { [c EXCEPT !.pad = p] : p \in 1..3 } ELSE {})

\* a claims object other than the signed one
OtherClaims(claims) == [claims EXCEPT !.id = claims.id + 1]

\* the token is changed between generateJWT and verifyJWT: one character of
\* the signature replaced
JTamperSig(i) ==
    LET seg == Segments(jToken)
    IN  /\ jPc = "signed" /\ jTamper = NoTamper
        /\ i \in 1..Len(seg[3])
        /\ \E c \in OtherChars(seg[3][i], i) :
               jToken' = Join3(seg[1], seg[2], [seg[3] EXCEPT ![i] = c])
        /\ jTamper' = [kind |-> "sig", pos |-> i]
        /\ UNCHANGED << jPc, jClaims, jSecret, jClockMs, jResult >>
        /\ UNCHANGED << varsAuth, varsKV, varsUnits >>

\* the header or the claims segment replaced, the signature kept; or the
\* token made by generateJWT under another secret
JTamperSigned(kind) ==
    LET seg == Segments(jToken)
    IN  /\ jPc = "signed" /\ jTamper = NoTamper
        /\ kind \in {"claims", "header", "secret"}
        /\ jToken' =
             IF kind = "claims"
             THEN Join3(seg[1], base64url(JSONstringify(OtherClaims(jClaims))), seg[3])
             ELSE IF kind = "header"
             THEN Join3(base64url(JSONstringify([alg |-> "none", typ |-> "JWT"])), seg[2], seg[3])
             ELSE generateJWT(jClaims, CHOOSE k \in JSecrets : k # jSecret)
        /\ jTamper' = [kind |-> kind]
        /\ UNCHANGED << jPc, jClaims, jSecret, jClockMs, jResult >>
        /\ UNCHANGED << varsAuth, varsKV, varsUnits >>

\* the number of pieces changed: a piece appended, the signature dropped, or
\* a piece emptied
JTamperParts(kind) ==
    LET seg == Segments(jToken)
    IN  /\ jPc = "signed" /\ jTamper = NoTamper
        /\ kind \in {"append", "drop", "nosig", "noclaims"}
        /\ jToken' =
             IF kind = "append" THEN jToken \o <<Dot>> \o base64url(JSONstringify([x |-> 1]))
             ELSE IF kind = "drop" THEN seg[1] \o <<Dot>> \o seg[2]
             ELSE IF kind = "nosig" THEN Join3(seg[1], seg[2], <<>>)
             ELSE Join3(seg[1], <<>>, seg[3])
        /\ jTamper' = [kind |-> kind]
        /\ UNCHANGED << jPc, jClaims, jSecret, jClockMs, jResult >>
        /\ UNCHANGED << varsAuth, varsKV, varsUnits >>

\* result = await verifyJWT(token), a first time or again
JVerify ==
    /\ jPc \in {"signed", "again"}
    /\ jResult' = verifyJWT(jToken, jSecret, jClockMs)
    /\ jPc' = "verified"
    /\ UNCHANGED << jClaims, jSecret, jClockMs, jToken, jTamper >>
    /\ UNCHANGED << varsAuth, varsKV, varsUnits >>

\* time passes before the token is made or looked at, or after it was looked
\* at: jResult is then the result of the earlier call
JTick ==
    /\ jPc \in {"start", "signed", "verified", "again"}
    /\ jClockMs < (MaxTicks + 1) * TickMs
    /\ jClockMs' = jClockMs + TickMs
    /\ jPc' = IF jPc = "verified" THEN "again" ELSE jPc
    /\ UNCHANGED << jClaims, jSecret, jToken, jTamper, jResult >>
    /\ UNCHANGED << varsAuth, varsKV, varsUnits >>

JNext ==
    \/ JGenerate
    \/ \E i \in 1..SigLen : JTamperSig(i)
    \/ \E kind \in {"claims", "header", "secret"} : JTamperSigned(kind)
    \/ \E kind \in {"append", "drop", "nosig", "noclaims"} : JTamperParts(kind)
    \/ JVerify
    \/ JTick

\* ------------------------------------------------- the issue of a token
\* Date.now() around the turn of a second
TClocks == { 0, 999, 1000, 1500, 2999 }

TEmails == { <<"a">>, <<"lam">> }

\* the rows login signs for
TUsers == [id : 1..2, email : TEmails]

\* the payloads createJWT is given: the one of handleLogin, and payloads that
\* carry an exp or an iat of their own
TPayloads ==
    LET base == [userId : {uuidv4(1), uuidv4(2)}, email : TEmails]
    IN  base \cup { p @@ [exp |-> e] : p \in base, e \in {0, 5} }
             \cup { p @@ [exp |-> e, iat |-> 7] : p \in base, e \in {0, 5} }
             \cup { p @@ [iat |-> 7] : p \in base }

TIdle ==
    /\ tVariant = "none"
    /\ tPayload = Null
    /\ tClockMs = 0
    /\ tToken = Null

TInit ==
    /\ tVariant \in {"login", "kv"}
    /\ tPayload \in (IF tVariant = "login" THEN TUsers ELSE TPayloads)
    /\ tClockMs \in TClocks
    /\ tToken = Null

\* const exp = Math.floor(Date.now() / 1000) + 24 * 60 * 60;
\* const token = await generateJWT({ id: user.id, email: user.email, exp });
LoginToken ==
    /\ tVariant = "login" /\ tToken = Null
    /\ tToken' = generateJWT(LoginClaims(tPayload, tClockMs), SECRET)
    /\ UNCHANGED << tVariant, tPayload, tClockMs >>
    /\ UNCHANGED << varsAuth, varsKV, varsJ, varsC, varsS, varsSw, varsCn >>

\* const token = await createJWT(payload, env.JWT_SECRET);
CreateToken ==
    /\ tVariant = "kv" /\ tToken = Null
    /\ tToken' = createJWT(tPayload, JWT_SECRET, tClockMs)
    /\ UNCHANGED << tVariant, tPayload, tClockMs >>
    /\ UNCHANGED << varsAuth, varsKV, varsJ, varsC, varsS, varsSw, varsCn >>

TNext == LoginToken \/ CreateToken

\* ---------------------------------------------------- makeRecoveryCode
Bytes == 0..255

\* the arrays crypto.getRandomValues may leave: each value at each index
\* among the values of a draw, and each value at all indices
ByteArrays ==
    { [RandomDraw(1) EXCEPT ![p] = b] : p \in 1..CodeLen, b \in Bytes }
      \cup { [i \in 1..CodeLen |-> b] : b \in Bytes }

CIdle ==
    /\ cBytes = << >>
    /\ cCode = Null

CInit ==
    /\ cBytes \in ByteArrays
    /\ cCode = Null

\* const recoveryCode = makeRecoveryCode(12);
MakeCode ==
    /\ cCode = Null /\ cBytes # << >>
    /\ cCode' = makeRecoveryCode(cBytes)
    /\ UNCHANGED cBytes
    /\ UNCHANGED << varsAuth, varsKV, varsJ, varsT, varsS, varsSw, varsCn >>

CNext == MakeCode

\* ------------------------------------------- handlers and store failures
\* A handler is the list of the store calls of one path through it.  Of each
\* call: whether it stands inside the try block of the handler, and the
\* statuses the handler may return once the call has answered without
\* making another call.
StoreCall(op, inTry, returns) == [op |-> op, inTry |-> inTry, returns |-> returns]

Handler(name, calls) == [name |-> name, calls |-> calls]

\* onRequest of auth.js, by action
AuthHandlers ==
    { Handler("auth signup", << StoreCall("SELECT", TRUE, {409}),
                                StoreCall("INSERT", TRUE, {201}) >>),
      Handler("auth login",  << StoreCall("SELECT", TRUE, {200, 401}) >>),
      Handler("auth forgot", << StoreCall("SELECT", TRUE, {200, 401}),
                                StoreCall("UPDATE", TRUE, {200}) >>),
      Handler("auth delete", << StoreCall("DELETE", TRUE, {200, 404}) >>) }

\* the switch handlers that follow onRequest
SwitchHandlers ==
    { Handler("switch POST rename", << StoreCall("SELECT", TRUE, {404}),
                                       StoreCall("UPDATE", TRUE, {200}) >>),
      Handler("switch POST update", << StoreCall("batch", TRUE, {}),
                                       StoreCall("SELECT", TRUE, {}),
                                       StoreCall("UPDATE", TRUE, {200}) >>),
      Handler("switch POST insert", << StoreCall("batch", TRUE, {}),
                                       StoreCall("SELECT", TRUE, {}),
                                       StoreCall("COUNT", TRUE, {403}),
                                       StoreCall("INSERT", TRUE, {200}) >>),
      Handler("switch GET",         << StoreCall("batch", TRUE, {}),
                                       StoreCall("SELECT", TRUE, {200}) >>),
      Handler("switch DELETE",      << StoreCall("SELECT", TRUE, {404}),
                                       StoreCall("DELETE", TRUE, {200}) >>) }

\* the handlers of functions/api/esp.js
EspHandlers ==
    { Handler("esp POST rename", << StoreCall("batch", TRUE, {}),
                                    StoreCall("SELECT", TRUE, {404}),
                                    StoreCall("SELECT", TRUE, {403}),
                                    StoreCall("UPDATE", TRUE, {200}) >>),
      Handler("esp POST update", << StoreCall("batch", TRUE, {}),
                                    StoreCall("SELECT", TRUE, {}),
                                    StoreCall("UPDATE", TRUE, {200}) >>),
      Handler("esp POST insert", << StoreCall("batch", TRUE, {}),
                                    StoreCall("SELECT", TRUE, {}),
                                    StoreCall("COUNT", TRUE, {403}),
                                    StoreCall("INSERT", TRUE, {200}) >>),
      Handler("esp DELETE",      << StoreCall("batch", TRUE, {}),
                                    StoreCall("SELECT", TRUE, {404}),
                                    StoreCall("DELETE", TRUE, {200}) >>),
      Handler("esp GET",         << StoreCall("batch", TRUE, {}),
                                    StoreCall("SELECT", TRUE, {200}) >>),
      Handler("esp PUT",         << StoreCall("batch", TRUE, {}),
                                    StoreCall("SELECT", TRUE, {200}),
                                    StoreCall("INSERT", TRUE, {200}) >>),
      Handler("esp PATCH",       << StoreCall("batch", TRUE, {}),
                                    StoreCall("SELECT", TRUE, {404}),
                                    StoreCall("UPDATE", TRUE, {200}) >>) }

\* the switch handlers that call NDB.exec
ExecHandlers ==
    { Handler("exec POST update", << StoreCall("exec", TRUE, {}),
                                     StoreCall("SELECT", TRUE, {}),
                                     StoreCall("UPDATE", TRUE, {200}) >>),
      Handler("exec POST insert", << StoreCall("exec", TRUE, {}),
                                     StoreCall("SELECT", TRUE, {}),
                                     StoreCall("COUNT", TRUE, {403}),
                                     StoreCall("INSERT", TRUE, {200}) >>),
      Handler("exec GET",         << StoreCall("exec", FALSE, {}),
                                     StoreCall("SELECT", FALSE, {200}) >>) }

Handlers == AuthHandlers \cup SwitchHandlers \cup EspHandlers \cup ExecHandlers

\* an exception that leaves the handler
Escaped == [escaped |-> TRUE]

\* new Response(JSON.stringify(...), { status })
JsonResponse(status) == [status |-> status, json |-> TRUE]

SIdle ==
    /\ sHandler = Null
    /\ sCall = 0
    /\ sResp = Null

\* a request reaches a handler and passes its checks of the fields
SBegin(h) ==
    /\ sHandler = Null
    /\ sHandler' = h
    /\ sCall' = 1
    /\ sResp' = Null
    /\ UNCHANGED << varsAuth, varsKV, varsJ, varsT, varsC, varsSw, varsCn >>

\* a request reaches a handler and fails its checks of the fields
SReject(h) ==
    /\ sHandler = Null
    /\ sHandler' = h
    /\ sCall' = 0
    /\ sResp' = JsonResponse(400)
    /\ UNCHANGED << varsAuth, varsKV, varsJ, varsT, varsC, varsSw, varsCn >>

\* the awaited store call answers: the handler returns, or awaits the next
SCallReturns ==
    /\ sHandler # Null /\ sResp = Null
    /\ \/ /\ \E st \in sHandler.calls[sCall].returns : sResp' = JsonResponse(st)
          /\ UNCHANGED sCall
       \/ /\ sCall < Len(sHandler.calls)
          /\ sCall' = sCall + 1
          /\ UNCHANGED sResp
    /\ UNCHANGED sHandler
    /\ UNCHANGED << varsAuth, varsKV, varsJ, varsT, varsC, varsSw, varsCn >>

\* the awaited store call throws: the catch block of the handler answers
\* 500, when the call stands in a try block
SCallThrows ==
    /\ sHandler # Null /\ sResp = Null
    /\ sResp' = IF sHandler.calls[sCall].inTry THEN JsonResponse(500) ELSE Escaped
    /\ UNCHANGED << sHandler, sCall >>
    /\ UNCHANGED << varsAuth, varsKV, varsJ, varsT, varsC, varsSw, varsCn >>

SNext ==
    \/ \E h \in Handlers : SBegin(h)
    \/ \E h \in Handlers : SReject(h)
    \/ SCallReturns
    \/ SCallThrows

\* ---------------------------------------------- esp.js: the switch table
SwitchLimit   == 5          \* count.total >= 5
MaxSwInFlight == 2          \* handlers waiting for the store at one time
MaxSwitchIds  == 6          \* INSERTs into esp_switches

SwLabels == { "l1", "l5", "l6" }

\* the bodies of POST: toggle or add, rename, and one body for each check
\* of the fields that fails
SwPostBodies ==
    [email : {"u"}, label : SwLabels, state : {"off"}, renameTo : {""}]
      \cup [email : {"u"}, label : SwLabels, state : {""}, renameTo : {"l5"}]
      \cup { [email |-> "", label |-> "l1", state |-> "off", renameTo |-> ""],
             [email |-> "u", label |-> "", state |-> "off", renameTo |-> ""],
             [email |-> "u", label |-> "l1", state |-> "", renameTo |-> ""] }

SwDeleteBodies ==
    [email : {"u"}, label : SwLabels] \cup { [email |-> "", label |-> "l1"] }

\* the switches a user added one after the other before the requests looked at
Added(n) ==
    { [id |-> i, user_email |-> "u", label |-> <<"l1", "l2", "l3", "l4">>[i], state |-> "on"] : i \in 1..n }

\* new Response(JSON.stringify(body), { status })
SwResponse(status, body) == [status |-> status, body |-> body]

\* .first(): the matching row of least id, or Null
First(rows) ==
    IF rows = {} THEN Null ELSE CHOOSE r \in rows : \A q \in rows : r.id <= q.id

\* SELECT id FROM esp_switches WHERE user_email=? AND label=?
SelectSwitch(email, label) ==
    First({ r \in switches : r.user_email = email /\ r.label = label })

\* SELECT COUNT(*) AS total FROM esp_switches WHERE user_email=?
CountSwitches(email) == Cardinality({ r \in switches : r.user_email = email })

SwIdle ==
    /\ switches = {}
    /\ swNextId = 1
    /\ swInflight = EmptyBag
    /\ swOut = Null

\* the table as created, or with four switches of the user in it
SwInit ==
    /\ \E n \in {0, 4} : switches = Added(n) /\ swNextId = n + 1
    /\ swInflight = EmptyBag
    /\ swOut = Null

SwReady == swOut = Null /\ UNCHANGED << varsAuth, varsKV, varsJ, varsT, varsC, varsS, varsCn >>

SwReturn(body, r) == swOut' = [req |-> body, resp |-> r]

SwSuspend(pcNext, body, l) ==
    /\ BagCardinality(swInflight) < MaxSwInFlight
    /\ swInflight' = swInflight (+) SetToBag({[pc |-> pcNext, body |-> body, loc |-> l]})
    /\ swOut' = Null

SwResume(r) == swInflight' = swInflight (-) SetToBag({r})

\* onRequestPost, up to the answer of the first SELECT
SwPost(body) ==
    LET existing == SelectSwitch(body.email, body.label)
    IN  /\ SwReady
        /\ UNCHANGED << switches, swNextId >>
        /\ IF body.email = "" \/ body.label = ""
           THEN /\ SwReturn(body, SwResponse(400, [error |-> "Missing fields"]))
                /\ UNCHANGED swInflight
           ELSE IF body.renameTo # ""
           THEN IF existing = Null
                THEN /\ SwReturn(body, SwResponse(404, [error |-> "Switch not found"]))
                     /\ UNCHANGED swInflight
                ELSE SwSuspend("conflict", body, [id |-> existing.id])
           ELSE IF body.state = ""
           THEN /\ SwReturn(body, SwResponse(400, [error |-> "Missing state"]))
                /\ UNCHANGED swInflight
           ELSE IF existing # Null
           THEN SwSuspend("toggle", body, [id |-> existing.id])
           ELSE SwSuspend("count", body, Null)

\* rename: the SELECT of the new label
SwRenameConflict(r) ==
    LET conflict == SelectSwitch(r.body.email, r.body.renameTo)
    IN  /\ SwReady
        /\ r.pc = "conflict"
        /\ UNCHANGED << switches, swNextId >>
        /\ IF conflict # Null
           THEN /\ SwResume(r)
                /\ SwReturn(r.body, SwResponse(403, [error |-> "Label already exists"]))
           ELSE /\ swInflight' = (swInflight (-) SetToBag({r})) (+) SetToBag({[r EXCEPT !.pc = "rename"]})
                /\ swOut' = Null

\* rename: UPDATE esp_switches SET label=? WHERE id=?
SwRenameUpdate(r) ==
    /\ SwReady
    /\ r.pc = "rename"
    /\ SwResume(r)
    /\ switches' = { IF q.id = r.loc.id THEN [q EXCEPT !.label = r.body.renameTo] ELSE q : q \in switches }
    /\ UNCHANGED swNextId
    /\ SwReturn(r.body, SwResponse(200, [success |-> TRUE]))

\* toggle: UPDATE esp_switches SET state=? WHERE id=?
SwToggleUpdate(r) ==
    /\ SwReady
    /\ r.pc = "toggle"
    /\ SwResume(r)
    /\ switches' = { IF q.id = r.loc.id THEN [q EXCEPT !.state = r.body.state] ELSE q : q \in switches }
    /\ UNCHANGED swNextId
    /\ SwReturn(r.body, SwResponse(200, [success |-> TRUE]))

\* add: the COUNT and the comparison with the limit
SwCount(r) ==
    /\ SwReady
    /\ r.pc = "count"
    /\ UNCHANGED << switches, swNextId >>
    /\ IF CountSwitches(r.body.email) >= SwitchLimit
       THEN /\ SwResume(r)
            /\ SwReturn(r.body, SwResponse(403, [error |-> "Switch limit reached (5)"]))
       ELSE /\ swInflight' = (swInflight (-) SetToBag({r})) (+) SetToBag({[r EXCEPT !.pc = "insert"]})
            /\ swOut' = Null

\* add: INSERT INTO esp_switches (user_email, label, state)
SwInsert(r) ==
    /\ SwReady
    /\ r.pc = "insert"
    /\ swNextId <= MaxSwitchIds
    /\ SwResume(r)
    /\ switches' = switches \cup {[id |-> swNextId, user_email |-> r.body.email,
                                   label |-> r.body.label, state |-> r.body.state]}
    /\ swNextId' = swNextId + 1
    /\ SwReturn(r.body, SwResponse(200, [success |-> TRUE]))

\* onRequestDelete, up to the answer of the SELECT
SwDelete(body) ==
    LET existing == SelectSwitch(body.email, body.label)
    IN  /\ SwReady
        /\ UNCHANGED << switches, swNextId >>
        /\ IF body.email = "" \/ body.label = ""
           THEN /\ SwReturn(body, SwResponse(400, [error |-> "Missing fields"]))
                /\ UNCHANGED swInflight
           ELSE IF existing = Null
           THEN /\ SwReturn(body, SwResponse(404, [error |-> "Switch not found"]))
                /\ UNCHANGED swInflight
           ELSE SwSuspend("delete", body, [id |-> existing.id])

\* DELETE FROM esp_switches WHERE id=?
SwDeleteRun(r) ==
    /\ SwReady
    /\ r.pc = "delete"
    /\ SwResume(r)
    /\ switches' = { q \in switches : q.id # r.loc.id }
    /\ UNCHANGED swNextId
    /\ SwReturn(r.body, SwResponse(200, [success |-> TRUE]))

SwDeliver ==
    /\ swOut # Null
    /\ swOut' = Null
    /\ UNCHANGED << switches, swNextId, swInflight >>
    /\ UNCHANGED << varsAuth, varsKV, varsJ, varsT, varsC, varsS, varsCn >>

SwNext ==
    \/ \E body \in SwPostBodies : SwPost(body)
    \/ \E r \in BagToSet(swInflight) : SwRenameConflict(r)
    \/ \E r \in BagToSet(swInflight) : SwRenameUpdate(r)
    \/ \E r \in BagToSet(swInflight) : SwToggleUpdate(r)
    \/ \E r \in BagToSet(swInflight) : SwCount(r)
    \/ \E r \in BagToSet(swInflight) : SwInsert(r)
    \/ \E body \in SwDeleteBodies : SwDelete(body)
    \/ \E r \in BagToSet(swInflight) : SwDeleteRun(r)
    \/ SwDeliver

\* ------------------------------------------ esp.js: the connection table
MaxCnInFlight == 1          \* handlers waiting for the store at one time: requests one after the other
MaxConnIds    == 4          \* INSERTs into esp_connections

CnEmails  == { "u", "" }
CnDevices == { "d1", "d2", "" }
CnBodies  == [email : CnEmails, device : CnDevices]

\* SELECT id, connected FROM esp_connections WHERE user_email=? AND device=?
SelectConnection(email, device) ==
    First({ r \in conns : r.user_email = email /\ r.device = device })

CnInit ==
    /\ conns = {}
    /\ cnNextId = 1
    /\ cnInflight = EmptyBag
    /\ cnOut = Null

CnReady == cnOut = Null /\ UNCHANGED << varsAuth, varsKV, varsJ, varsT, varsC, varsS, varsSw >>

CnReturn(body, method, r) == cnOut' = [req |-> body, method |-> method, resp |-> r]

CnSuspend(pcNext, body, l) ==
    /\ BagCardinality(cnInflight) < MaxCnInFlight
    /\ cnInflight' = cnInflight (+) SetToBag({[pc |-> pcNext, body |-> body, loc |-> l]})
    /\ cnOut' = Null

\* onRequestPut, up to the answer of the SELECT
CnPut(body) ==
    LET existing == SelectConnection(body.email, body.device)
    IN  /\ CnReady
        /\ UNCHANGED << conns, cnNextId >>
        /\ IF body.email = "" \/ body.device = ""
           THEN /\ CnReturn(body, "PUT", SwResponse(400, [error |-> "Missing fields"]))
                /\ UNCHANGED cnInflight
           ELSE IF existing # Null /\ existing.connected = 1
           THEN /\ CnReturn(body, "PUT", SwResponse(200, [success |-> TRUE, message |-> "Already connected"]))
                /\ UNCHANGED cnInflight
           ELSE CnSuspend("insert", body, Null)

\* INSERT INTO esp_connections (user_email, device, connected) VALUES (?, ?, 1)
CnInsert(r) ==
    /\ CnReady
    /\ r.pc = "insert"
    /\ cnNextId <= MaxConnIds
    /\ cnInflight' = cnInflight (-) SetToBag({r})
    /\ conns' = conns \cup {[id |-> cnNextId, user_email |-> r.body.email,
                             device |-> r.body.device, connected |-> 1]}
    /\ cnNextId' = cnNextId + 1
    /\ CnReturn(r.body, "PUT", SwResponse(200, [success |-> TRUE, connected |-> TRUE]))

\* onRequestPatch, up to the answer of the SELECT
CnPatch(body) ==
    LET existing == SelectConnection(body.email, body.device)
    IN  /\ CnReady
        /\ UNCHANGED << conns, cnNextId >>
        /\ IF body.email = "" \/ body.device = ""
           THEN /\ CnReturn(body, "PATCH", SwResponse(400, [error |-> "Missing fields"]))
                /\ UNCHANGED cnInflight
           ELSE IF existing = Null
           THEN /\ CnReturn(body, "PATCH", SwResponse(404, [error |-> "Device not found"]))
                /\ UNCHANGED cnInflight
           ELSE CnSuspend("update", body, [id |-> existing.id])

\* UPDATE esp_connections SET connected=0 WHERE id=?
CnUpdate(r) ==
    /\ CnReady
    /\ r.pc = "update"
    /\ cnInflight' = cnInflight (-) SetToBag({r})
    /\ conns' = { IF q.id = r.loc.id THEN [q EXCEPT !.connected = 0] ELSE q : q \in conns }
    /\ UNCHANGED cnNextId
    /\ CnReturn(r.body, "PATCH", SwResponse(200, [success |-> TRUE, disconnected |-> TRUE]))

CnDeliver ==
    /\ cnOut # Null
    /\ cnOut' = Null
    /\ UNCHANGED << conns, cnNextId, cnInflight >>
    /\ UNCHANGED << varsAuth, varsKV, varsJ, varsT, varsC, varsS, varsSw >>

CnNext ==
    \/ \E body \in CnBodies : CnPut(body)
    \/ \E r \in BagToSet(cnInflight) : CnInsert(r)
    \/ \E body \in CnBodies : CnPatch(body)
    \/ \E r \in BagToSet(cnInflight) : CnUpdate(r)
    \/ CnDeliver

\* ------------------------------------------------------- specifications
Init == AuthInit /\ KvInit /\ JIdle /\ TIdle /\ CIdle /\ SIdle /\ SwIdle /\ CnInit

Next == AuthNext

Spec == Init /\ [][Next]_vars

InitKV == AuthInit /\ KvInit /\ JIdle /\ TIdle /\ CIdle /\ SIdle /\ SwIdle /\ CnInit

SpecKV == InitKV /\ [][KvNext]_vars

InitJWT == AuthInit /\ KvInit /\ JInit /\ TIdle /\ CIdle /\ SIdle /\ SwIdle /\ CnInit

SpecJWT == InitJWT /\ [][JNext]_vars

InitToken == AuthInit /\ KvInit /\ JIdle /\ TInit /\ CIdle /\ SIdle /\ SwIdle /\ CnInit

SpecToken == InitToken /\ [][TNext]_vars

InitCode == AuthInit /\ KvInit /\ JIdle /\ TIdle /\ CInit /\ SIdle /\ SwIdle /\ CnInit

SpecCode == InitCode /\ [][CNext]_vars

InitStore == AuthInit /\ KvInit /\ JIdle /\ TIdle /\ CIdle /\ SIdle /\ SwIdle /\ CnInit

SpecStore == InitStore /\ [][SNext]_vars

InitSwitch == AuthInit /\ KvInit /\ JIdle /\ TIdle /\ CIdle /\ SIdle /\ SwInit /\ CnInit

SpecSwitch == InitSwitch /\ [][SwNext]_vars

InitConn == AuthInit /\ KvInit /\ JIdle /\ TIdle /\ CIdle /\ SIdle /\ SwIdle /\ CnInit

SpecConn == InitConn /\ [][CnNext]_vars

\* ---------------------------------------------------------------- claims
IsLogin  == out # Null /\ out.req.action = "login"
IsSignup == out # Null /\ out.req.action = "signup"
IsForgot == out # Null /\ out.req.action = "forgot"

\* a forgot request that carries recovery_code and new_password
IsReset == IsForgot /\ out.req.recovery_code # <<>> /\ out.req.new_password # <<>>

\* a forgot request that carries only an email
IsLookup == IsForgot /\ out.req.recovery_code = <<>> /\ out.req.new_password = <<>>

\* C1: a login with the email and the password of an account that a signup
\* answered 201 for, not reset or deleted since, returns 200 with a token
\* that verifyJWT accepts under the same secret and whose email claim is the
\* normalized email of the account.
C1_SignupThenLogin ==
    (IsLogin /\ out.g.cred /\ out.g.signup) =>
        /\ out.resp.status = 200
        /\ verifyJWT(out.resp.body.token, SECRET, out.g.at) # Null
        /\ verifyJWT(out.resp.body.token, SECRET, out.g.at).email = NormalizeEmail(out.req.email)

\* the signup-then-login round trip of an account whose email btoa accepts
C1_Reached ==
    /\ IsLogin /\ out.g.cred /\ out.g.signup
    /\ out.resp.status = 200
    /\ verifyJWT(out.resp.body.token, SECRET, out.g.at).email = NormalizeEmail(out.req.email)

\* C2: a reset carrying the recovery code the signup of the account returned,
\* not used before, returns 200 with a new code; a reset of an existing
\* account carrying a code that a completed reset was made with returns 401,
\* and a reset answered 401 leaves the table as it was.
C2_State ==
    /\ (IsReset /\ out.g.first) =>
          /\ out.resp.status = 200
          /\ out.resp.body.recovery_code \in AllCodes \ {out.req.recovery_code}
          /\ \A u \in users : u.id = out.g.id =>
                /\ u.password = hashPassword(out.req.new_password)
                /\ u.recovery_code = hashPassword(out.resp.body.recovery_code)
    /\ (IsReset /\ out.g.exists /\ out.g.stale) =>
          /\ out.resp.status = 401
          /\ out.resp.body = [error |-> "Invalid recovery code"]

C2_Step ==
    (out = Null /\ out' # Null /\ out'.req.action = "forgot" /\ out'.resp.status = 401)
        => users' = users

C2_RecoveryOnce == [] C2_State /\ [][C2_Step]_vars

\* the second attempt with the code the first one was made with
C2_Witness ==
    /\ IsReset /\ out.g.exists /\ out.g.stale
    /\ out.resp.status = 401
    /\ \E u \in users : u.email = NormalizeEmail(out.req.email)
                        /\ gRow[u.id].code = out.req.recovery_code

\* the recovery codes sent in responses for email e that match the stored digest
LiveCodes(e) ==
    { c \in AllCodes : /\ <<e, c>> \in gDisclosed
                       /\ \E u \in users : u.email = e /\ u.recovery_code = hashPassword(c) }

\* C3: for each user at most one of the recovery codes sent in responses
\* matches the stored recovery digest, and a code that a completed reset was
\* made with does not match it.
C3_OneLiveCode ==
    /\ \A e \in { NormalizeEmail(x) : x \in EmailInputs } : Cardinality(LiveCodes(e)) <= 1
    /\ \A p \in gUsed : p[2] \notin LiveCodes(p[1])

\* an account after two resets: three codes sent, one of them live
C3_Witness ==
    \E u \in users :
        /\ Cardinality({ c \in AllCodes : <<u.email, c>> \in gDisclosed }) >= 3
        /\ Cardinality({ c \in AllCodes : <<u.email, c>> \in gUsed }) >= 1
        /\ Cardinality(LiveCodes(u.email)) = 1

\* C4: a reset does not return 200 for a recovery code that another reset of
\* the same user has already returned 200 for.
C4_OneResetPerCode ==
    (IsReset /\ out.resp.status = 200 /\ "recovery_code" \in DOMAIN out.resp.body) => ~out.g.again

\* C6: no two rows of `users` have the same email, and every stored email
\* is trimmed and in lower case.
IsNormalized(s) ==
    /\ \A i \in 1..Len(s) : s[i] \notin {"A", "LAM"}
    /\ s # <<>> => ~IsSpace(s[1]) /\ ~IsSpace(s[Len(s)])

C7_LoginFailuresAlike ==
    (IsLogin /\ NormalizeEmail(out.req.email) # <<>> /\ out.req.password # <<>>
             /\ (~out.g.exists \/ ~out.g.cred)) =>
        /\ out.resp.status = 401
        /\ out.resp.body = [error |-> "Invalid credentials"]

\* C8: a forgot request that carries only an email returns 200 with the body
\* it returns when there is no account, whether or not there is one.
C8_LookupAlike ==
    (IsLookup /\ NormalizeEmail(out.req.email) # <<>>) =>
        /\ out.resp.status = 200
        /\ out.resp.body = [message |-> "If an account exists, instructions were sent."]

\* C9: login returns 200 only when the digest of the submitted password is
\* the stored digest of an existing user, and 401 for every other password.
C9_LoginNeedsDigest ==
    (IsLogin /\ NormalizeEmail(out.req.email) # <<>> /\ out.req.password # <<>>) =>
        /\ out.resp.status = 200 => out.g.exists /\ hashPassword(out.req.password) = out.g.stored
        /\ ~(out.g.exists /\ hashPassword(out.req.password) = out.g.stored) => out.resp.status = 401

\* C5: a signup does not return 201 for an email another signup has already
\* returned 201 for.
C5_OneSignupPerEmail ==
    (kvOut # Null /\ "again" \in DOMAIN kvOut.g) => ~kvOut.g.again

\* the same for the action-based endpoint, whose table refuses the second row
C5_OneSignupPerEmailD1 ==
    (IsSignup /\ out.resp.status = 201) =>
        Cardinality({ u \in users : u.email = NormalizeEmail(out.req.email) }) = 1

\* the token reaches verifyJWT as generateJWT returned it
Untouched == jTamper = NoTamper

HasExp == "exp" \in DOMAIN jClaims

\* C10: verifyJWT(generateJWT(claims)) under the same secret returns the
\* claims, for every claims object whose exp is in the future.
C10_RoundTrip ==
    (jPc \in {"threw", "verified"} /\ Untouched /\ HasExp /\ jClaims.exp * 1000 > jClockMs) =>
        jPc = "verified" /\ jResult = jClaims

\* the round trip of claims btoa accepts
C10_Reached ==
    /\ jPc = "verified" /\ Untouched /\ HasExp /\ jClaims.exp * 1000 > jClockMs
    /\ jResult = jClaims

\* C11: a token of generateJWT with one character of its signature segment
\* replaced by a different character is rejected by verifyJWT.
C11_SigTamper ==
    (jPc = "verified" /\ jTamper.kind = "sig") => jResult = Null

\* the same for the characters all of whose bits are bits of the MAC
C11_DataPositions ==
    (jPc = "verified" /\ jTamper.kind = "sig" /\ jTamper.pos < SigLen) => jResult = Null

\* C12: verifyJWT returns claims only when the decoded signature segment is
\* the MAC of `header.claims` under the server's secret; a token signed
\* under another secret, or whose header or claims segment was replaced after
\* signing, is rejected.
C12_SignatureBinds ==
    /\ (jPc = "verified" /\ jResult # Null) =>
          LET seg == Segments(jToken)
          IN  /\ Len(seg) >= 3
              /\ atob(seg[3]) = hmacSign(jSecret, seg[1] \o <<Dot>> \o seg[2])
    /\ (jPc = "verified" /\ jTamper.kind \in {"claims", "header", "secret"}) => jResult = Null

\* a token signed under the other secret, rejected
C12_Witness ==
    /\ jPc = "verified" /\ jTamper.kind = "secret"
    /\ Len(Segments(jToken)) = 3
    /\ jResult = Null

\* C13: an unchanged token whose exp is before now is rejected, and a token
\* verifyJWT has rejected is rejected by every later call.
C13_State ==
    (jPc = "verified" /\ Untouched /\ HasExp /\ jClaims.exp * 1000 < jClockMs) => jResult = Null

C13_Step ==
    (jPc = "again" /\ Untouched /\ jResult = Null /\ jPc' = "verified") => jResult' = Null

C13_ExpiredStays == [] C13_State /\ [][C13_Step]_vars

\* a token with exp = 1 s looked at when now = 3 s
C13_Witness ==
    /\ jPc = "verified" /\ Untouched /\ HasExp
    /\ jClaims.exp = 1 /\ jClockMs = 2 * TickMs
    /\ jResult = Null

\* C14: an unchanged token is rejected whenever now >= exp.
C14_StrictExpiry ==
    (jPc = "verified" /\ Untouched /\ HasExp /\ jClockMs >= jClaims.exp * 1000) => jResult = Null

\* C15: an unchanged token whose claims have no exp is rejected.
C15_MissingExp ==
    (jPc = "verified" /\ Untouched /\ ~HasExp) => jResult = Null

\* exactly three pieces, none of them empty
ThreeParts(token) ==
    LET seg == Segments(token)
    IN  Len(seg) = 3 /\ \A k \in 1..3 : seg[k] # <<>>

\* C16: a token that is not three non-empty pieces separated by dots is
\* rejected.
C16_ThreeParts ==
    (jPc = "verified" /\ ~ThreeParts(jToken)) => jResult = Null

\* the tokens of fewer than three pieces, or with an empty piece
C16_FewerParts ==
    (jPc = "verified" /\ jTamper.kind \in {"drop", "nosig", "noclaims"}) => jResult = Null

\* the row of `users` with the given id, before and after a step
RowChanged(u, v) == u.id = v.id /\ u # v

\* a reset writes both digests, and no other step writes either of them
C17_Written ==
    (IsReset /\ out.resp.status = 200 /\ "recovery_code" \in DOMAIN out.resp.body) =>
        \A u \in users : u.id = out.g.id =>
            /\ u.password = hashPassword(out.req.new_password)
            /\ u.recovery_code = hashPassword(out.resp.body.recovery_code)

C17_Step ==
    \A u \in users, v \in users' :
        RowChanged(u, v) =>
            /\ out' # Null /\ out'.req.action = "forgot" /\ out'.resp.status = 200
            /\ v.password = hashPassword(out'.req.new_password)
            /\ v.recovery_code = hashPassword(out'.resp.body.recovery_code)
            /\ v = [u EXCEPT !.password = v.password, !.recovery_code = v.recovery_code]

C17_Atomic == [] C17_Written /\ [][C17_Step]_vars

\* the logins after a reset
C17_Logins ==
    /\ (IsLogin /\ out.g.cred /\ ~out.g.signup) => out.resp.status = 200
    /\ (IsLogin /\ out.g.old) => out.resp.status = 401

\* C17: a successful reset replaces the password digest and the recovery
\* digest of the user in one step, no step changes one of them alone, and
\* afterwards login with the new password returns 200 and login with the old
\* password, when different, returns 401.
C17_ResetAtomic == [] (C17_Written /\ C17_Logins) /\ [][C17_Step]_vars

\* the same with the logins of the accounts whose email btoa accepts
C17_LatinLogins ==
    (IsLogin /\ \A i \in 1..Len(out.req.email) : IsLatin1(out.req.email[i])) => C17_Logins

\* C18: a reset for an existing user with a recovery code whose digest is
\* not the stored one returns 401 "Invalid recovery code" and changes neither
\* the user's row nor the code that matches it.
C18_State ==
    (IsReset /\ out.g.exists /\ ~out.g.match) =>
        /\ out.resp.status = 401
        /\ out.resp.body = [error |-> "Invalid recovery code"]

C18_Step ==
    (out = Null /\ out' # Null /\ out'.req.action = "forgot" /\ out'.resp.status = 401) =>
        \A e \in { NormalizeEmail(x) : x \in EmailInputs } :
            e = NormalizeEmail(out'.req.email) =>
                /\ \A u \in users : u.email = e => u \in users'
                /\ LiveCodes(e)' = LiveCodes(e)

C18_WrongCode == [] C18_State /\ [][C18_Step]_vars

\* a reset refused for a code that is not the user's, whose code still matches
C18_Witness ==
    /\ IsReset /\ out.g.exists /\ ~out.g.match
    /\ out.req.recovery_code \in AllCodes
    /\ out.resp.status = 401
    /\ LiveCodes(NormalizeEmail(out.req.email)) # {}

\* C19: a signup with name, email and password for an email that has a row
\* returns 409, changes no row and sends no recovery code; a row appears
\* only with a signup that returns 201.
C19_State ==
    (/\ IsSignup /\ out.g.registered
     /\ trim(out.req.name) # <<>> /\ out.req.password # <<>>) =>
        /\ out.resp.status = 409
        /\ "recovery_code" \notin DOMAIN out.resp.body

C19_Step ==
    /\ (out = Null /\ out' # Null /\ out'.req.action = "signup" /\ out'.resp.status = 409) =>
          users' = users /\ gDisclosed' = gDisclosed
    /\ ({ v.id : v \in users' } \ { u.id : u \in users } # {}) =>
          out' # Null /\ out'.req.action = "signup" /\ out'.resp.status = 201

C19_SignupConflict == [] C19_State /\ [][C19_Step]_vars

\* the second signup of a registered email
C19_Witness ==
    /\ IsSignup /\ out.g.registered
    /\ out.resp.status = 409
    /\ \E u \in users : u.email = NormalizeEmail(out.req.email) /\ u.email # <<>>

\* the same for handleSignUp: a signup answered from the USERS.get of a key
\* that has a value returns 409 and writes nothing
C19_KvStep ==
    (/\ kvOut = Null /\ kvOut' # Null /\ kvInflight' = kvInflight
     /\ "success" \in DOMAIN kvOut'.resp.body
     /\ Len(kvOut'.req.password) >= MinPasswordLen
     /\ kvOut'.req.email \in DOMAIN kv) =>
        kvOut'.resp.status = 409 /\ kv' = kv

C19_KvConflict == [][C19_KvStep]_vars

IsDelete == out # Null /\ out.req.action = "delete"

\* C20: delete of an email without row returns 404 {success:false,
\* error:"User not found"} and changes no row; delete of the email of a user
\* returns 200 with success:true and removes that user's row and no other.
C20_Step ==
    (out = Null /\ out' # Null /\ out'.req.action = "delete"
                /\ NormalizeEmail(out'.req.email) # <<>>) =>
        LET mine == { u \in users : u.email = NormalizeEmail(out'.req.email) }
        IN  IF mine = {}
            THEN /\ out'.resp.status = 404
                 /\ out'.resp.body = [success |-> FALSE, error |-> "User not found"]
                 /\ users' = users
            ELSE /\ out'.resp.status = 200
                 /\ out'.resp.body.success = TRUE
                 /\ Cardinality(mine) = 1
                 /\ users' = users \ mine

C20_DeleteFrame == [][C20_Step]_vars

\* a delete that leaves another user's row
C20_Witness ==
    /\ IsDelete /\ out.resp.status = 200
    /\ users # {}

\* the claims a token carries
ClaimsOf(token) == atob(Segments(token)[2]).json

\* the character strings a response body carries, apart from its fixed
\* messages: a recovery code, the fields of the user object, the claims
StringsIn(body) ==
    (IF "recovery_code" \in DOMAIN body THEN {body.recovery_code} ELSE {})
      \cup (IF "user" \in DOMAIN body
            THEN { body.user[f] : f \in DOMAIN body.user \ {"id", "phone", "gender"} }
            ELSE {})
      \cup (IF "token" \in DOMAIN body
            THEN { ClaimsOf(body.token)[f] : f \in DOMAIN ClaimsOf(body.token) \ {"id", "exp"} }
            ELSE {})

C21_State ==
    /\ \A u \in users :
          /\ u.password \notin PlainPasswords \cup AllCodes
          /\ u.recovery_code \notin AllCodes
          /\ u.password = <<"#">> \o gRow[u.id].password
          /\ \E c \in issued : u.recovery_code = <<"#">> \o c
    /\ (out # Null /\ StringsIn(out.resp.body) \cap AllCodes # {}) =>
          /\ (IsSignup /\ out.resp.status = 201) \/ (IsForgot /\ out.resp.status = 200)
          /\ StringsIn(out.resp.body) \cap AllCodes = {out.resp.body.recovery_code}

C21_Step ==
    (out = Null /\ out' # Null /\ "recovery_code" \in DOMAIN out'.resp.body) =>
        /\ out'.resp.body.recovery_code \notin issued
        /\ out'.resp.body.recovery_code \in issued'
        /\ \A p \in gDisclosed : p[2] # out'.resp.body.recovery_code

\* C21: the rows of `users` hold digests only; a recovery code in plain text
\* is carried by the 201 signup response or the 200 reset response of the
\* step that made it, and by no row and no other response.
C21_PlainOnce == [] C21_State /\ [][C21_Step]_vars

\* a reset answered with the code whose digest the row now holds
C21_Witness ==
    /\ IsReset /\ out.resp.status = 200 /\ "recovery_code" \in DOMAIN out.resp.body
    /\ \E u \in users : u.recovery_code = hashPassword(out.resp.body.recovery_code)
    /\ \E p \in gUsed : p[2] = out.req.recovery_code

\* C22: no response carries the password digest or the recovery digest of a
\* user; the user object of a 200 login has id, name, email, phone and gender,
\* and the claims of its token id, email and exp.
C22_NoDigests ==
    /\ out # Null =>
          /\ \A u \in users : u.password \notin StringsIn(out.resp.body)
                              /\ u.recovery_code \notin StringsIn(out.resp.body)
          /\ DOMAIN out.resp.body \cap {"password", "recovery_code_digest"} = {}
    /\ (IsLogin /\ out.resp.status = 200) =>
          /\ DOMAIN out.resp.body.user = {"id", "name", "email", "phone", "gender"}
          /\ DOMAIN ClaimsOf(out.resp.body.token) = {"id", "email", "exp"}

\* a login answered 200 after a reset
C22_Witness ==
    /\ IsLogin /\ out.resp.status = 200
    /\ ~out.g.signup
    /\ out.resp.body.user.email = NormalizeEmail(out.req.email)

\* a string of white space only
Blank(s) == \A i \in 1..Len(s) : IsSpace(s[i])

\* trim and lower case, written out
Canonical(s) == toLowerCase(TrimEnd(TrimStart(s)))

C25_State ==
    /\ ((IsLogin \/ IsForgot) /\ out.calls = 1) =>
          (out.g.exists <=> \E u \in users : u.email = Canonical(out.req.email))
    /\ (IsLogin /\ out.resp.status = 200) =>
          /\ ClaimsOf(out.resp.body.token).email = Canonical(out.req.email)
          /\ out.resp.body.user.email = Canonical(out.req.email)
    /\ (IsSignup /\ out.resp.status = 201) =>
          \E u \in users : u.email = Canonical(out.req.email)
    /\ (IsSignup /\ out.resp.status = 409) =>
          \E u \in users : u.email = Canonical(out.req.email)

C25_Step ==
    (out = Null /\ out' # Null /\ out'.req.action = "delete" /\ out'.resp.status = 200) =>
        /\ users \ users' = { u \in users : u.email = Canonical(out'.req.email) }
        /\ users \ users' # {}

\* C25: signup, login, forgot and delete look the user up by the trimmed,
\* lower-case email, whatever spelling the request uses, and the email claim
\* of a login token is that form.
C25_OneSpelling == [] C25_State /\ [][C25_Step]_vars

\* a login with a spelling no signup was made with
C25_Witness ==
    /\ IsLogin /\ out.resp.status = 200
    /\ out.req.email \notin EmailInputs
    /\ ClaimsOf(out.resp.body.token).email = out.resp.body.user.email

C28_AuthErrors ==
    (out # Null /\ out.resp.status \in {400, 401, 403, 404, 409, 500}) =>
        "error" \in DOMAIN out.resp.body

\* a request that lacks the action or a field its action requires
LacksField(req) ==
    IF "method" \in DOMAIN req THEN req.method # "OPTIONS"
    ELSE IF req.action = "signup"
         THEN Blank(req.name) \/ Blank(req.email) \/ req.password = <<>>
    ELSE IF req.action = "login" THEN Blank(req.email) \/ req.password = <<>>
    ELSE Blank(req.email)

C30_State ==
    /\ (out # Null /\ LacksField(out.req)) => out.resp.status = 400 /\ out.calls = 0
    /\ (out # Null /\ out.resp.status = 400) => out.calls = 0

C30_Step ==
    (/\ out = Null /\ out' # Null
     /\ \/ out'.req.action = "login"
        \/ out'.req.action = "forgot"
             /\ (out'.req.recovery_code = <<>> \/ out'.req.new_password = <<>>)
        \/ out'.resp.status = 400) =>
        users' = users

\* C30: login, forgot without recovery_code and new_password, and every
\* request answered 400 leave `users` as it was; a request without action,
\* with an unknown action or without a required field (a name or email of
\* white space included) is answered 400 before any store call.
C30_ReadOnly == [] C30_State /\ [][C30_Step]_vars

\* a signup with a name of white space
C30_Witness ==
    /\ IsSignup /\ out.req.name # <<>> /\ Blank(out.req.name)
    /\ out.resp.status = 400
    /\ out.calls = 0
    /\ users # {}

\* C28: every response with status 400, 401, 403, 404, 409 or 500 has an
\* `error` key (here: the responses of handleSignUp and handleLogin).
C28_ErrorKey ==
    (kvOut # Null /\ kvOut.resp.status \in {400, 401, 403, 404, 409, 500}) =>
        "error" \in DOMAIN kvOut.resp.body

\* a key of USERS that is another spelling of the email
Spellings(email) ==
    { k \in DOMAIN kv : k # email /\ NormalizeEmail(k) = NormalizeEmail(email) }

C26_Step ==
    /\ (/\ kvOut = Null /\ kvOut' # Null
        /\ "success" \in DOMAIN kvOut'.resp.body
        /\ Len(kvOut'.req.password) >= MinPasswordLen
        /\ Spellings(kvOut'.req.email) # {}) =>
          kvOut'.resp.status = 409
    /\ (/\ kvOut = Null /\ kvOut' # Null
        /\ "success" \notin DOMAIN kvOut'.resp.body
        /\ \E k \in Spellings(kvOut'.req.email) :
              kv[k].json.hash = kvHashPassword(kvOut'.req.password, kv[k].json.salt)) =>
          kvOut'.resp.status = 200

\* C26: handleSignUp and handleLogin find the record of an email under every
\* spelling of it: a signup with another spelling of a registered email
\* returns 409, a login with another spelling and the password returns 200.
C26_KvOneSpelling == [][C26_Step]_vars

\* C23: with the store allowed to fail at any call, no handler lets the
\* exception leave it: each failure ends in a 500 JSON response.
C23_NoEscape == sResp # Escaped

\* C24: the token of a login expires 86400 seconds after the second it was
\* issued in; the token of createJWT expires 604800 seconds after it and has
\* that second as iat, whatever exp or iat the payload carried.
C24_Lifetime ==
    (tToken # Null /\ tToken # Throw) =>
        LET claims == ClaimsOf(tToken)
            sec    == tClockMs \div 1000
        IN  /\ tVariant = "login" => claims.exp = sec + 86400
            /\ tVariant = "kv" => (claims.exp = sec + 604800 /\ claims.iat = sec)

C24_Witness ==
    /\ tVariant = "kv" /\ tClockMs = 1500
    /\ {"exp", "iat"} \subseteq DOMAIN tPayload
    /\ tToken # Null /\ tToken # Throw
    /\ ClaimsOf(tToken).exp = 604801

\* the same of the token in the 200 response of action=login
C24_LoginHandler ==
    (IsLogin /\ out.resp.status = 200) =>
        ClaimsOf(out.resp.body.token).exp = (out.g.at \div 1000) + 86400

Upper  == << "A","B","C","D","E","F","G","H","I","J","K","L","M",
             "N","O","P","Q","R","S","T","U","V","W","X","Y","Z" >>
Lower  == << "a","b","c","d","e","f","g","h","i","j","k","l","m",
             "n","o","p","q","r","s","t","u","v","w","x","y","z" >>
Digits == << "0","1","2","3","4","5","6","7","8","9" >>

Alnum == { Upper[i] : i \in 1..26 } \cup { Lower[i] : i \in 1..26 } \cup { Digits[i] : i \in 1..10 }

\* the character at index k (from 0) of A-Z, a-z, 0-9
IndexChar(k) ==
    IF k < 26 THEN Upper[k + 1] ELSE IF k < 52 THEN Lower[k - 25] ELSE Digits[k - 51]

\* C29: makeRecoveryCode(12) returns 12 characters, the i-th being the
\* character at index (i-th byte mod 62) of the 62 characters A-Z, a-z, 0-9.
C29_CodeShape ==
    cCode # Null =>
        /\ Cardinality(Alnum) = 62
        /\ Len(cCode) = 12
        /\ \A i \in 1..12 : cCode[i] \in Alnum /\ cCode[i] = IndexChar(cBytes[i] % 62)

C29_Witness ==
    /\ cCode # Null
    /\ \E i \in 1..12 : cBytes[i] = 255 /\ cCode[i] = "H"

\* a reset for an email without row gets the answer of the lookup
C31_UnknownEmail ==
    (IsReset /\ NormalizeEmail(out.req.email) # <<>> /\ ~out.g.exists /\ out.calls = 1) =>
        /\ out.resp.status = 200
        /\ out.resp.body = [message |-> "If an account exists, instructions were sent."]

\* C31: a forgot request with recovery_code and new_password for the email
\* of a user, with a recovery code that is not the user's, gets the status
\* and the body such a request gets for an email without user.
C31_ResetAlike ==
    (IsReset /\ out.g.exists /\ ~out.g.match) =>
        /\ out.resp.status = 200
        /\ out.resp.body = [message |-> "If an account exists, instructions were sent."]

\* the email had an account (a recovery code was sent for it) and has no row
Deleted(e) ==
    /\ \E c \in AllCodes : <<e, c>> \in gDisclosed
    /\ ~\E u \in users : u.email = e

C32_State ==
    (IsLogin /\ out.req.password # <<>> /\ Deleted(NormalizeEmail(out.req.email))) =>
        out.resp.status = 401

C32_Step ==
    (out = Null /\ out' # Null /\ out'.req.action \in {"signup", "forgot", "delete"}) =>
        \A e \in { NormalizeEmail(x) : x \in LookupEmails } :
            (e # <<>> /\ e = NormalizeEmail(out'.req.email)) =>
                /\ (out'.req.action = "delete" /\ out'.resp.status = 200) =>
                       ~\E u \in users' : u.email = e
                /\ (out'.req.action = "forgot" /\ Deleted(e)) =>
                       /\ users' = users
                       /\ LiveCodes(e)' = {}
                /\ (out'.req.action = "signup" /\ Deleted(e)
                      /\ trim(out'.req.name) # <<>> /\ out'.req.password # <<>>) =>
                       /\ out'.resp.status = 201
                       /\ out'.resp.body.recovery_code \notin issued
                       /\ \E u \in users' :
                             /\ u.email = e
                             /\ u.recovery_code = <<"#">> \o out'.resp.body.recovery_code
                             /\ u.password = <<"#">> \o out'.req.password

\* C32: once a delete returned 200 for an email, a login with it returns 401
\* and a forgot request changes no row and leaves no recovery code of it
\* that matches, until a signup for it returns 201 with a recovery code not
\* issued before.
C32_AfterDelete == [] C32_State /\ [][C32_Step]_vars

\* a login with the password of the deleted account, refused
C32_Witness ==
    /\ IsLogin /\ out.req.password = <<"a">>
    /\ Deleted(NormalizeEmail(out.req.email))
    /\ out.resp.status = 401

\* a signup after the delete: the second code sent for the email, no reset made
C32_SignupAgain ==
    /\ IsSignup /\ out.resp.status = 201
    /\ Cardinality({ c \in AllCodes : <<NormalizeEmail(out.req.email), c>> \in gDisclosed }) >= 2
    /\ ~\E c \in AllCodes : <<NormalizeEmail(out.req.email), c>> \in gUsed

\* C33: each user owns at most 5 switches, in every reachable state of the
\* switch table.
C33_AtMostFive ==
    \A e \in { r.user_email : r \in switches } : CountSwitches(e) <= 5

\* an add that finds five switches of the user at its COUNT is refused and
\* inserts nothing
C33_Refused ==
    [][(swOut = Null /\ swOut' # Null /\ swOut'.resp.status = 403
          /\ swOut'.resp.body = [error |-> "Switch limit reached (5)"]) =>
        (switches' = switches /\ CountSwitches(swOut'.req.email) >= 5)]_vars

\* C34: no user has two switches with the same label, in every reachable
\* state of the switch table.
C34_UniqueLabels ==
    \A r, q \in switches :
        (r.user_email = q.user_email /\ r.label = q.label) => r = q

\* a rename refused with 403 found a switch of the user with the new label
\* and changes nothing
C34_RenameRefused ==
    [][(swOut = Null /\ swOut' # Null /\ swOut'.resp.status = 403
          /\ swOut'.resp.body = [error |-> "Label already exists"]) =>
        /\ switches' = switches
        /\ \E q \in switches : q.user_email = swOut'.req.email /\ q.label = swOut'.req.renameTo]_vars

\* the rows of the connection table for a pair
PairRows(email, device) == { r \in conns : r.user_email = email /\ r.device = device }

\* C35: when a PATCH for (email, device) has returned success, no row of
\* the connection table for (email, device) has connected = 1.
C35_Disconnected ==
    (cnOut # Null /\ cnOut.method = "PATCH" /\ cnOut.resp.status = 200) =>
        \A r \in PairRows(cnOut.req.email, cnOut.req.device) : r.connected # 1

\* C36: the connection table holds at most one row for each (email, device).
C36_OneRowPerPair ==
    \A r, q \in conns :
        (r.user_email = q.user_email /\ r.device = q.device) => r = q

====
